---- MODULE Spec2Model ----
(***************************************************************************)
(* Reservoir sampling (Algorithm R) as implemented by class Reservoir of   *)
(* src/reservoir.py.  One Reservoir object is driven by a single caller    *)
(* through its public operations; the streaming loop of Reservoir.sample   *)
(* is modelled one item per step, with pc recording the position.          *)
(***************************************************************************)
EXTENDS Integers, Sequences, FiniteSets

(***************************************************************************)
(* Bounds of the model.                                                    *)
(***************************************************************************)
\* largest capacity a caller asks for
MaxSize == 3
\* cap on the number of items ingested between two resets
MaxSeen == 5
\* longest stream passed to one call of sample
MaxStream == 2
\* largest seed a caller passes
MaxSeed == 0
\* cap on the number of calls of np.random.seed
MaxSeedings == 2
\* the draws remembered of one seeding, at most
MaxDraws == 2

(***************************************************************************)
(* Python values passed by the caller.  A float f stands for f.val + 0.5.  *)
(***************************************************************************)
PyInt(n) == [kind |-> "int", val |-> n]
PyFloat(n) == [kind |-> "float", val |-> n]
None == [kind |-> "none", val |-> 0]

\* the values of the stream items; sample never inspects an item
Items == {"a", "b"}
Streams == UNION {[1..n -> Items] : n \in 0..MaxStream}
\* arguments tried for size: -1, 0, 1, ..., MaxSize and the float 1.5
SizeArgs == {PyInt(n) : n \in -1..MaxSize} \cup {PyFloat(1)}
\* arguments tried for seed: absent, -1, 0..MaxSeed and the float 0.5
SeedArgs == {None} \cup {PyInt(n) : n \in -1..MaxSeed} \cup {PyFloat(0)}
\* those of them with which sample does not seed the generator
NoSeedArgs == {None, PyInt(-1), PyFloat(0)}
\* arguments tried for gen: an iterable holding a stream, or a non iterable
GenArgs == {[iterable |-> TRUE, items |-> s] : s \in Streams}
             \cup {[iterable |-> FALSE, items |-> <<>>]}

VARIABLES
    _size,      \* self._size
    _samples,   \* self._samples, slot i of the list is _samples[i + 1]
    _seen,      \* self._seen
    rng,        \* state of the process-wide generator np.random
    pc,         \* "idle" between calls, "loop" inside the for loop of sample
    gen,        \* items the running call of sample has still to draw
    call,       \* the last call made by the caller and its arguments
    ret,        \* its outcome: "ok", "pending" or the exception raised
    supplied,   \* items of the streams handed to sample since the last reset
    minSize,    \* smallest _size stored since construction / reset
    maxSize,    \* largest _size stored since construction / reset
    trace,      \* record of the calls of sample, kept when trace.on
    th          \* the threads of SpecThreads inside a call

vars == <<_size, _samples, _seen, rng, pc, gen, call, ret, supplied,
          minSize, maxSize, trace, th>>

\* no thread but the caller's
NoThreads == <<>>

(***************************************************************************)
(* The record of the calls of sample since construction or the last reset: *)
(* draws holds what the generator drew for them, calls counts them (0, 1,  *)
(* 2 for two or more), reseeded tells that a later one was given a seed.   *)
(* seeded counts the calls given a seed since the start, up to             *)
(* MaxSeedings.  first is the run of the first of them when it was the     *)
(* one call on a fresh reservoir: its capacity, seed and stream length and *)
(* what it left; it is dropped when no seeded call can follow.  The record *)
(* is kept only when it is switched on, and the draws only when taped, for *)
(* as long as the capacity is unchanged.                                   *)
(***************************************************************************)
NoRun ==
    [set |-> FALSE, size |-> 0, seed |-> 0, n |-> 0, samples |-> <<>>,
     seen |-> 0]

TraceOff ==
    [on |-> FALSE, taped |-> FALSE, draws |-> <<>>, calls |-> 0,
     reseeded |-> FALSE, seeded |-> 0, first |-> NoRun]

\* the record switched on, with or without the draws
TraceOn(taped) ==
    [on |-> TRUE, taped |-> taped, draws |-> <<>>, calls |-> 0,
     reseeded |-> FALSE, seeded |-> 0, first |-> NoRun]

TraceStart ==
    IF trace.on
    THEN [trace EXCEPT !.draws = <<>>, !.calls = 0, !.reseeded = FALSE,
                       !.first = IF trace.seeded < MaxSeedings
                                 THEN trace.first ELSE NoRun]
    ELSE trace

TraceCall(seeded) ==
    IF trace.on
    THEN LET n == IF seeded /\ trace.seeded < MaxSeedings
                  THEN trace.seeded + 1 ELSE trace.seeded
         IN  [trace EXCEPT
                !.calls = IF trace.calls < 2 THEN trace.calls + 1 ELSE 2,
                !.reseeded = trace.reseeded \/ (trace.calls > 0 /\ seeded),
                !.seeded = n,
                !.first = IF n < MaxSeedings \/ (seeded /\ trace.calls = 0)
                          THEN trace.first ELSE NoRun]
    ELSE trace

\* the size setter has changed _size since construction / reset
Resized == minSize # maxSize

\* the draws are recorded up to the first change of capacity
TraceDraws(drew) ==
    IF trace.taped /\ ~Resized
    THEN [trace EXCEPT !.draws = trace.draws \o drew]
    ELSE trace

\* the capacity becomes sz
TraceResize(sz) ==
    IF trace.taped /\ (sz # minSize \/ sz # maxSize)
    THEN [trace EXCEPT !.draws = <<>>]
    ELSE trace

Call(name, arg, genKind) == [name |-> name, arg |-> arg, gen |-> genKind]

Max(a, b) == IF a >= b THEN a ELSE b
Min(a, b) == IF a <= b THEN a ELSE b

(***************************************************************************)
(* Utilities to check user input.  Each yields "ok" or the exception.      *)
(***************************************************************************)
_check_int(n) == IF n.kind = "int" THEN "ok" ELSE "TypeError"

\* the positivity check with 0 let through
_check_positive_int_zero(n) == IF n.val < 0 THEN "ValueError" ELSE "ok"

_check_positive_int(n) == IF n.val < 1 THEN "ValueError" ELSE "ok"

_check_iterable(itrbl) == IF itrbl.iterable THEN "ok" ELSE "TypeError"

\* _check_int followed by _check_positive_int, as __init__ and the size
\* setter do
CheckSize(value) ==
    IF _check_int(value) # "ok" THEN _check_int(value)
    ELSE _check_positive_int(value)

(***************************************************************************)
(* np.random, the process-wide generator.  Its stream is a function of the *)
(* seed and of the calls made since the seeding, and is otherwise unknown: *)
(* a draw is any value the call can return, and what a draw was found to   *)
(* be is remembered (known) for the later runs from the same seed.  A      *)
(* uniform draw u is known by an interval lo < u <= hi of fractions        *)
(* <<numerator, denominator>>, a choice by the index drawn.  Every draw    *)
(* made after a seeding is remembered while another seeding can follow;    *)
(* after the last seeding followed only what is still to be read is kept.  *)
(* In mode "os" the generator is in a state no seeding followed leads back *)
(* to: the one the process started with, or one past all that is known     *)
(* after the last seeding.  In mode "tape" the generator replays a tape of *)
(* recorded draws.                                                         *)
(***************************************************************************)
Less(a, b) == a[1] * b[2] < b[1] * a[2]

\* what is known of a draw before it is made; kind is 0 for uniform(size=1)
\* and n for choice(n), idx is -1 while no index is known
Blank(kind) == [kind |-> kind, lo |-> <<0, 1>>, hi |-> <<1, 1>>, idx |-> -1]

Unseeded ==
    [mode |-> "os", seed |-> 0, hist |-> <<>>, known |-> <<>>,
     seedings |-> 0, tape |-> <<>>]

Tape(draws) ==
    [mode |-> "tape", seed |-> 0, hist |-> <<>>, known |-> <<>>,
     seedings |-> 0, tape |-> draws]

\* np.random.seed accepts the integers of 0 .. 2**32 - 1
SeedInRange(s) == 0 <= s /\ s \div 65536 < 65536

\* the generator remembers its draws: it is seeded and another seeding can
\* follow
Remembering(r) == r.mode = "seeded" /\ r.seedings < MaxSeedings

\* np.random.seed(s); after the last seeding followed only the stream of s
\* is of use
Seed(r, s) ==
    [r EXCEPT !.mode = "seeded", !.seed = s, !.hist = <<>>,
              !.seedings = r.seedings + 1,
              !.known = IF r.seedings + 1 < MaxSeedings THEN r.known
                        ELSE [k \in {x \in DOMAIN r.known : x[1] = s}
                                |-> r.known[k]]]

Put(f, k, v) == [x \in DOMAIN f \cup {k} |-> IF x = k THEN v ELSE f[x]]

\* the place of the next call in the stream of the seed
Key(r, kind) == <<r.seed, Append(r.hist, kind)>>

\* what is known of the next draw, none when the tape has no such draw
Prior(r, kind) ==
    IF r.mode = "tape"
    THEN IF r.tape # <<>> /\ Head(r.tape).kind = kind
         THEN {Head(r.tape)} ELSE {}
    ELSE IF r.mode = "seeded" /\ Key(r, kind) \in DOMAIN r.known
         THEN {r.known[Key(r, kind)]}
         ELSE {Blank(kind)}

\* the places of known further along the stream than h
Ahead(known, h) ==
    {x \in DOMAIN known :
       /\ Len(x[2]) > Len(h)
       /\ \A i \in 1..Len(h) : x[2][i] = h[i]}

\* the generator after a draw of the given kind, now known as e
Advance(r, e) ==
    IF r.mode = "tape" THEN [r EXCEPT !.tape = Tail(r.tape)]
    ELSE IF Remembering(r)
         THEN [r EXCEPT !.hist = Append(r.hist, e.kind),
                        !.known = Put(r.known, Key(r, e.kind), e)]
    ELSE IF r.mode = "seeded"
         THEN IF Ahead(r.known, Append(r.hist, e.kind)) # {}
              THEN [r EXCEPT !.hist = Append(r.hist, e.kind),
                             !.known = [k \in Ahead(r.known,
                                                    Append(r.hist, e.kind))
                                          |-> r.known[k]]]
              ELSE [r EXCEPT !.mode = "os", !.hist = <<>>, !.seed = 0,
                             !.known = <<>>]
    ELSE r

\* the values u <= sz / sn can take for a draw u known as e
Keep(e, sz, sn) ==
    {k \in BOOLEAN : IF k THEN Less(e.lo, <<sz, sn>>)
                          ELSE Less(<<sz, sn>>, e.hi)}

\* e, knowing in addition that u <= sz / sn is k
Compared(e, sz, sn, k) ==
    IF k THEN [e EXCEPT !.hi = IF Less(<<sz, sn>>, e.hi) THEN <<sz, sn>>
                               ELSE e.hi]
    ELSE [e EXCEPT !.lo = IF Less(e.lo, <<sz, sn>>) THEN <<sz, sn>>
                          ELSE e.lo]

\* keep = np.random.uniform(size=1) <= p with p = sz / sn: the outcomes
Uniform(r, sz, sn) ==
    UNION {{[keep |-> k, entry |-> Compared(e, sz, sn, k),
             rng |-> Advance(r, Compared(e, sz, sn, k))]
              : k \in Keep(e, sz, sn)}
             : e \in Prior(r, 0)}

\* swap_index = int(np.random.choice(n)): the outcomes
Choice(r, n) ==
    UNION {{[idx |-> i, entry |-> [e EXCEPT !.idx = i],
             rng |-> Advance(r, [e EXCEPT !.idx = i])]
              : i \in IF e.idx = -1 THEN 0..(n - 1) ELSE {e.idx}}
             : e \in Prior(r, n)}

\* the filling test off by one: one item more than size is stored
FillingOneMore(sn, sz) == sn <= sz + 1

\* the filling test with < for <=: the item that fills the last slot is
\* sent to the replacement branch
FillingStrict(sn, sz) == sn < sz

\* the test that selects the filling branch
Filling(sn, sz) == sn <= sz

\* the outcome of one turn of the loop: the list, the counter, the
\* generator, the exception raised or "ok", and the draws made
Turn(smp, sn, r, err, drew) ==
    [samples |-> smp, seen |-> sn, rng |-> r, err |-> err, drew |-> drew]

\* self._samples[swap_index] = item, after the draws u and c
SlotWrite(smp, n, item, u, c) ==
    IF c.idx < Len(smp)
    THEN Turn([smp EXCEPT ![c.idx + 1] = item], n, c.rng, "ok",
              <<u.entry, c.entry>>)
    ELSE Turn(smp, n, c.rng, "IndexError", <<u.entry, c.entry>>)

\* a loop body that appends an accepted item instead of overwriting a slot
LoopBodyAppend(sz, smp, sn, r, item) ==
    LET n == sn + 1 IN
    IF Filling(n, sz)
    THEN {Turn(Append(smp, item), n, r, "ok", <<>>)}
    ELSE UNION {IF u.keep
                THEN {Turn(Append(smp, item), n, c.rng, "ok",
                           <<u.entry, c.entry>>) : c \in Choice(u.rng, sz)}
                ELSE {Turn(smp, n, u.rng, "ok", <<u.entry>>)}
                  : u \in Uniform(r, sz, n)}

\* a loop body that puts a filling item in front of the list
LoopBodyPrepend(sz, smp, sn, r, item) ==
    LET n == sn + 1 IN
    IF Filling(n, sz)
    THEN {Turn(<<item>> \o smp, n, r, "ok", <<>>)}
    ELSE UNION {IF u.keep
                THEN {SlotWrite(smp, n, item, u, c) : c \in Choice(u.rng, sz)}
                ELSE {Turn(smp, n, u.rng, "ok", <<u.entry>>)}
                  : u \in Uniform(r, sz, n)}

\* a loop body that counts an item only in the replacement branch
LoopBodyCountsLate(sz, smp, sn, r, item) ==
    LET n == sn + 1 IN
    IF Filling(n, sz)
    THEN {Turn(Append(smp, item), sn, r, "ok", <<>>)}
    ELSE UNION {IF u.keep
                THEN {SlotWrite(smp, n, item, u, c) : c \in Choice(u.rng, sz)}
                ELSE {Turn(smp, n, u.rng, "ok", <<u.entry>>)}
                  : u \in Uniform(r, sz, n)}

(***************************************************************************)
(* The body of the for loop of sample, for one item: its outcomes.         *)
(***************************************************************************)
LoopBody(sz, smp, sn, r, item) ==
    LET n == sn + 1 IN
    IF Filling(n, sz)
    THEN {Turn(Append(smp, item), n, r, "ok", <<>>)}
    ELSE UNION {IF u.keep
                THEN {SlotWrite(smp, n, item, u, c) : c \in Choice(u.rng, sz)}
                ELSE {Turn(smp, n, u.rng, "ok", <<u.entry>>)}
                  : u \in Uniform(r, sz, n)}

\* The for loop of sample run over a whole stream: the loop body item after
\* item, up to the end of the stream or to the first exception; the outcomes.
RECURSIVE RunLoop(_, _, _, _, _)
RunLoop(sz, smp, sn, r, items) ==
    IF items = <<>>
    THEN {Turn(smp, sn, r, "ok", <<>>)}
    ELSE UNION {IF b.err # "ok" THEN {[b EXCEPT !.drew = <<>>]}
                ELSE RunLoop(sz, b.samples, b.seen, b.rng, Tail(items))
                  : b \in LoopBody(sz, smp, sn, r, Head(items))}

(***************************************************************************)
(* Construction.  Init is the state after a successful Reservoir(size),    *)
(* in a process that has not seeded the generator.                         *)
(***************************************************************************)
Init ==
    \E c \in 1..MaxSize :
        /\ _size = c
        /\ _samples = <<>>
        /\ _seen = 0
        /\ rng = Unseeded
        /\ pc = "idle"
        /\ gen = <<>>
        /\ call = Call("__init__", PyInt(c), "-")
        /\ ret = "ok"
        /\ supplied = 0
        /\ minSize = c
        /\ maxSize = c
        /\ trace = TraceOff
        /\ th = NoThreads

\* The caller evaluates Reservoir(size) and, when it succeeds, holds the new
\* object in place of the old one; when it raises, no object is made.
__init__(size) ==
    /\ pc = "idle"
    /\ call' = Call("__init__", size, "-")
    /\ ret' = CheckSize(size)
    /\ IF CheckSize(size) = "ok"
       THEN /\ _size' = size.val
            /\ _samples' = <<>>
            /\ _seen' = 0
            /\ supplied' = 0
            /\ minSize' = size.val
            /\ maxSize' = size.val
            /\ trace' = TraceStart
       ELSE UNCHANGED <<_size, _samples, _seen, supplied, minSize, maxSize,
                        trace>>
    /\ UNCHANGED <<rng, pc, gen, th>>

\* a setter that cuts the sample down to the new size
size_setter_truncate(value) ==
    /\ pc = "idle"
    /\ call' = Call("size", value, "-")
    /\ ret' = CheckSize(value)
    /\ IF CheckSize(value) = "ok"
       THEN /\ _size' = value.val
            /\ _samples' = SubSeq(_samples, 1, Min(Len(_samples), value.val))
            /\ minSize' = Min(minSize, value.val)
            /\ maxSize' = Max(maxSize, value.val)
            /\ trace' = TraceResize(value.val)
       ELSE UNCHANGED <<_size, _samples, minSize, maxSize, trace>>
    /\ UNCHANGED <<_seen, rng, pc, gen, supplied, th>>

(***************************************************************************)
(* The size property setter.                                               *)
(***************************************************************************)
size_setter(value) ==
    /\ pc = "idle"
    /\ call' = Call("size", value, "-")
    /\ ret' = CheckSize(value)
    /\ IF CheckSize(value) = "ok"
       THEN /\ _size' = value.val
            /\ minSize' = Min(minSize, value.val)
            /\ maxSize' = Max(maxSize, value.val)
            /\ trace' = TraceResize(value.val)
       ELSE UNCHANGED <<_size, minSize, maxSize, trace>>
    /\ UNCHANGED <<_samples, _seen, rng, pc, gen, supplied, th>>

(***************************************************************************)
(* Reservoir.sample: the checks and the seeding, up to the for loop.       *)
(***************************************************************************)
\* the checks of sample without the check of the seed
CheckSampleNoSeed(g, seed) == _check_iterable(g)

\* the exception the checks of sample raise, or "ok"
CheckSample(g, seed) ==
    IF _check_iterable(g) # "ok" THEN _check_iterable(g)
    ELSE IF seed # None THEN _check_int(seed)
    ELSE "ok"

\* the seed is one np.random.seed accepts, or there is none
CheckSeed(seed) ==
    IF seed # None /\ ~SeedInRange(seed.val) THEN "ValueError" ELSE "ok"

\* the draws the loop can make at most for a stream of n items
DrawsNeeded(n) == 2 * Max(0, _seen + n - Max(_size, _seen))

\* the model follows the call: the counter, the seedings and the draws
\* remembered of one seeding stay under the caps
Followed(g, seed) ==
    /\ _seen + Len(g.items) <= MaxSeen
    /\ (CheckSample(g, seed) = "ok" /\ CheckSeed(seed) = "ok") =>
          IF seed # None
          THEN /\ rng.seedings < MaxSeedings
               /\ rng.seedings + 1 < MaxSeedings
                     => DrawsNeeded(Len(g.items)) <= MaxDraws
          ELSE Remembering(rng)
                 => Len(rng.hist) + DrawsNeeded(Len(g.items)) <= MaxDraws

\* a sample that checks the seed and then does not seed the generator
sample_unseeded(g, seed) ==
    /\ pc = "idle"
    /\ Followed(g, seed)
    /\ call' = Call("sample", seed, IF g.iterable THEN "iterable" ELSE "other")
    /\ IF CheckSample(g, seed) # "ok"
       THEN /\ ret' = CheckSample(g, seed)
            /\ UNCHANGED <<rng, pc, gen, supplied, trace>>
       ELSE IF CheckSeed(seed) # "ok"
       THEN /\ ret' = CheckSeed(seed)
            /\ UNCHANGED <<rng, pc, gen, supplied, trace>>
       ELSE /\ rng' = rng
            /\ pc' = "loop"
            /\ gen' = g.items
            /\ supplied' = supplied + Len(g.items)
            /\ ret' = "pending"
            /\ trace' = TraceCall(seed # None)
    /\ UNCHANGED <<_size, _samples, _seen, minSize, maxSize, th>>

\* a sample that starts every call as a new stream, counting from 0
sample_restarts(g, seed) ==
    /\ pc = "idle"
    /\ Followed(g, seed)
    /\ call' = Call("sample", seed, IF g.iterable THEN "iterable" ELSE "other")
    /\ IF CheckSample(g, seed) # "ok"
       THEN /\ ret' = CheckSample(g, seed)
            /\ UNCHANGED <<rng, pc, gen, supplied, _seen, trace>>
       ELSE IF CheckSeed(seed) # "ok"
       THEN /\ ret' = CheckSeed(seed)
            /\ UNCHANGED <<rng, pc, gen, supplied, _seen, trace>>
       ELSE /\ rng' = IF seed # None THEN Seed(rng, seed.val) ELSE rng
            /\ pc' = "loop"
            /\ gen' = g.items
            /\ supplied' = supplied + Len(g.items)
            /\ ret' = "pending"
            /\ _seen' = 0
            /\ trace' = TraceCall(seed # None)
    /\ UNCHANGED <<_size, _samples, minSize, maxSize, th>>

\* the checks, then np.random.seed(seed) when a seed is given; the loop
\* follows
sample(g, seed) ==
    /\ pc = "idle"
    /\ Followed(g, seed)
    /\ call' = Call("sample", seed, IF g.iterable THEN "iterable" ELSE "other")
    /\ IF CheckSample(g, seed) # "ok"
       THEN /\ ret' = CheckSample(g, seed)
            /\ UNCHANGED <<rng, pc, gen, supplied, trace>>
       ELSE IF CheckSeed(seed) # "ok"
       THEN /\ ret' = CheckSeed(seed)
            /\ UNCHANGED <<rng, pc, gen, supplied, trace>>
       ELSE /\ rng' = IF seed # None THEN Seed(rng, seed.val) ELSE rng
            /\ pc' = "loop"
            /\ gen' = g.items
            /\ supplied' = supplied + Len(g.items)
            /\ ret' = "pending"
            /\ trace' = TraceCall(seed # None)
    /\ UNCHANGED <<_size, _samples, _seen, minSize, maxSize, th>>

\* one turn of the for loop; an exception of the slot write ends the call
\* and leaves the rest of the stream undrawn
sample_item ==
    /\ pc = "loop"
    /\ gen # <<>>
    /\ \E b \in LoopBody(_size, _samples, _seen, rng, Head(gen)) :
         /\ _samples' = b.samples
         /\ _seen' = b.seen
         /\ rng' = b.rng
         /\ trace' = TraceDraws(b.drew)
         /\ IF b.err = "ok"
            THEN /\ gen' = Tail(gen)
                 /\ UNCHANGED <<pc, ret>>
            ELSE /\ gen' = <<>>
                 /\ pc' = "idle"
                 /\ ret' = b.err
    /\ UNCHANGED <<_size, call, supplied, minSize, maxSize, th>>

\* the record of the run of the first seeded call, on a fresh reservoir
TraceRun ==
    IF /\ trace.on /\ trace.calls = 1 /\ ~Resized
       /\ call.arg.kind = "int" /\ trace.seeded = 1 /\ 1 < MaxSeedings
    THEN [trace EXCEPT !.first =
            [set |-> TRUE, size |-> _size, seed |-> call.arg.val,
             n |-> supplied, samples |-> _samples, seen |-> _seen]]
    ELSE trace

\* the stream is exhausted: sample returns
sample_return ==
    /\ pc = "loop"
    /\ gen = <<>>
    /\ pc' = "idle"
    /\ ret' = "ok"
    /\ trace' = TraceRun
    /\ UNCHANGED <<_size, _samples, _seen, rng, gen, call, supplied,
                   minSize, maxSize, th>>

\* a reset that forgets to clear the list
reset_keeps_samples ==
    /\ pc = "idle"
    /\ call' = Call("reset", None, "-")
    /\ ret' = "ok"
    /\ _seen' = 0
    /\ supplied' = 0
    /\ minSize' = _size
    /\ maxSize' = _size
    /\ trace' = TraceStart
    /\ UNCHANGED <<_size, _samples, rng, pc, gen, th>>

\* a reset that forgets to clear the counter
reset_keeps_seen ==
    /\ pc = "idle"
    /\ call' = Call("reset", None, "-")
    /\ ret' = "ok"
    /\ _samples' = <<>>
    /\ supplied' = 0
    /\ minSize' = _size
    /\ maxSize' = _size
    /\ trace' = TraceStart
    /\ UNCHANGED <<_size, _seen, rng, pc, gen, th>>

(***************************************************************************)
(* Reservoir.reset                                                         *)
(***************************************************************************)
reset ==
    /\ pc = "idle"
    /\ call' = Call("reset", None, "-")
    /\ ret' = "ok"
    /\ _seen' = 0
    /\ _samples' = <<>>
    /\ supplied' = 0
    /\ minSize' = _size
    /\ maxSize' = _size
    /\ trace' = TraceStart
    /\ UNCHANGED <<_size, rng, pc, gen, th>>

(***************************************************************************)
(* samples and seen are properties without a setter: assigning to them     *)
(* raises AttributeError.                                                  *)
(***************************************************************************)
samples_assign ==
    /\ pc = "idle"
    /\ call' = Call("samples=", None, "-")
    /\ ret' = "AttributeError"
    /\ UNCHANGED <<_size, _samples, _seen, rng, pc, gen, supplied, minSize,
                   maxSize, trace, th>>

seen_assign ==
    /\ pc = "idle"
    /\ call' = Call("seen=", None, "-")
    /\ ret' = "AttributeError"
    /\ UNCHANGED <<_size, _samples, _seen, rng, pc, gen, supplied, minSize,
                   maxSize, trace, th>>

(***************************************************************************)
(* The samples property returns the list self._samples itself, so what the *)
(* caller does to the value it gets is done to the reservoir's list.       *)
(***************************************************************************)
samples_append(item) ==
    /\ pc = "idle"
    /\ Len(_samples) < MaxSize
    /\ call' = Call("samples.append", None, "-")
    /\ ret' = "ok"
    /\ _samples' = Append(_samples, item)
    /\ UNCHANGED <<_size, _seen, rng, pc, gen, supplied, minSize, maxSize,
                   trace, th>>

samples_setitem(i, item) ==
    /\ pc = "idle"
    /\ call' = Call("samples[]=", None, "-")
    /\ IF i < Len(_samples)
       THEN /\ _samples' = [_samples EXCEPT ![i + 1] = item]
            /\ ret' = "ok"
       ELSE /\ _samples' = _samples
            /\ ret' = "IndexError"
    /\ UNCHANGED <<_size, _seen, rng, pc, gen, supplied, minSize, maxSize,
                   trace, th>>

samples_pop ==
    /\ pc = "idle"
    /\ call' = Call("samples.pop", None, "-")
    /\ IF _samples # <<>>
       THEN /\ _samples' = SubSeq(_samples, 1, Len(_samples) - 1)
            /\ ret' = "ok"
       ELSE /\ _samples' = _samples
            /\ ret' = "IndexError"
    /\ UNCHANGED <<_size, _seen, rng, pc, gen, supplied, minSize, maxSize,
                   trace, th>>

(***************************************************************************)
(* Specifications                                                          *)
(***************************************************************************)
Construct == \E size \in SizeArgs : __init__(size)
SetSize == \E value \in SizeArgs : size_setter(value)
\* A seeding only fixes which of its draws the generator makes, so what the
\* reservoir does after one it does with no seeding as well; the calls that
\* seed are followed in SpecSeeded.
Sample == \E g \in GenArgs, seed \in NoSeedArgs : sample(g, seed)

\* the operations of the class
Next ==
    \/ Construct
    \/ SetSize
    \/ Sample
    \/ sample_item
    \/ sample_return
    \/ reset
    \/ samples_assign
    \/ seen_assign

Spec == Init /\ [][Next]_vars

\* what a caller can do through the list the samples property hands out
AliasAppend == \E item \in Items : samples_append(item)
AliasSetItem == \E i \in 0..(MaxSize - 1), item \in Items : samples_setitem(i, item)

\* a caller that keeps its reservoir and its capacity, and also writes
\* through the list it got from the samples property
NextAlias ==
    \/ Sample
    \/ sample_item
    \/ sample_return
    \/ reset
    \/ samples_assign
    \/ seen_assign
    \/ AliasAppend
    \/ AliasSetItem
    \/ samples_pop

SpecAlias == Init /\ [][NextAlias]_vars

(***************************************************************************)
(* The same operations with the record of the calls switched on and with   *)
(* streams of pairwise distinct items: the items handed to sample since    *)
(* construction or the last reset are numbered 1, 2, ... in stream order.  *)
(***************************************************************************)
Numbered(from, to) == [i \in 1..(to - from + 1) |-> from + i - 1]

InitTrace ==
    \E c \in 1..MaxSize :
        /\ _size = c
        /\ _samples = <<>>
        /\ _seen = 0
        /\ rng = Unseeded
        /\ pc = "idle"
        /\ gen = <<>>
        /\ call = Call("__init__", PyInt(c), "-")
        /\ ret = "ok"
        /\ supplied = 0
        /\ minSize = c
        /\ maxSize = c
        /\ trace = TraceOn(TRUE)
        /\ th = NoThreads

SampleNumbered ==
    \E k \in 0..MaxStream, seed \in NoSeedArgs :
        sample([iterable |-> TRUE,
                items |-> Numbered(supplied + 1, supplied + k)], seed)

\* a change of capacity; a reset after it leaves a reservoir as constructed
Resize == \E c \in 1..MaxSize : size_setter(PyInt(c))

NextTrace ==
    \/ Resize
    \/ SampleNumbered
    \/ sample_item
    \/ sample_return
    \/ reset

SpecTrace == InitTrace /\ [][NextTrace]_vars

(***************************************************************************)
(* Calls of sample with and without a seed, on reservoirs of one capacity  *)
(* constructed in between, with the record of the first seeded run on a    *)
(* fresh reservoir.                                                        *)
(***************************************************************************)
InitSeeded ==
    \E c \in 1..MaxSize :
        /\ _size = c
        /\ _samples = <<>>
        /\ _seen = 0
        /\ rng = Unseeded
        /\ pc = "idle"
        /\ gen = <<>>
        /\ call = Call("__init__", PyInt(c), "-")
        /\ ret = "ok"
        /\ supplied = 0
        /\ minSize = c
        /\ maxSize = c
        /\ trace = TraceOn(FALSE)
        /\ th = NoThreads

\* the calls the checks of sample let through
SampleSeeded ==
    \E k \in 0..MaxStream, seed \in SeedArgs :
        /\ seed = None \/ seed.kind = "int"
        /\ sample([iterable |-> TRUE,
                   items |-> Numbered(supplied + 1, supplied + k)], seed)

\* a gen that is not iterable with a seed that np.random.seed accepts, or
\* a seed that is not an int
SampleOther ==
    \/ sample([iterable |-> FALSE, items |-> <<>>], PyInt(0))
    \/ \E seed \in SeedArgs :
         /\ seed # None /\ seed.kind # "int"
         /\ sample([iterable |-> TRUE, items |-> <<>>], seed)

\* another reservoir of the same capacity
ConstructSized == __init__(PyInt(_size))

NextSeeded ==
    \/ ConstructSized
    \/ SampleSeeded
    \/ SampleOther
    \/ sample_item
    \/ sample_return

SpecSeeded == InitSeeded /\ [][NextSeeded]_vars

(***************************************************************************)
(* Two threads share one fresh reservoir with no lock.  Thread 1 runs      *)
(* sample; thread 2 runs sample or reset.  A thread can be preempted       *)
(* between the attribute reads and writes of the loop body: the load and   *)
(* the store of self._seen += 1, the test of the filling branch, the       *)
(* append, the division, each of the two draws, the slot write, and        *)
(* between the two assignments of reset.  th.t[i] is thread i: where it is *)
(* (at), the items its stream still holds (left), the value of _seen it    *)
(* loaded (tmp), its p as <<size, seen>> (p), the slot it chose (idx) and  *)
(* how it ended (err).  th.drawn counts the items drawn                    *)
(* since the last reset; th.overlap tells that a thread took a step while  *)
(* the other was inside a loop body or inside reset.                       *)
(***************************************************************************)
Threads == {1, 2}

Thread(at, left) ==
    [at |-> at, left |-> left, tmp |-> 0, p |-> <<0, 1>>, idx |-> 0,
     err |-> "ok"]

InitThreads ==
    \E c \in 1..MaxSize, k \in 1..MaxStream :
    \E second \in {Thread("next", n) : n \in 1..MaxStream}
                    \cup {Thread("reset_seen", 0)} :
        /\ _size = c
        /\ _samples = <<>>
        /\ _seen = 0
        /\ rng = Unseeded
        /\ pc = "threads"
        /\ gen = <<>>
        /\ call = Call("__init__", PyInt(c), "-")
        /\ ret = "ok"
        /\ supplied = k + second.left
        /\ minSize = c
        /\ maxSize = c
        /\ trace = TraceOff
        /\ th = [t |-> <<Thread("next", k), second>>,
                 drawn |-> 0, overlap |-> FALSE]

\* a thread other than t is inside a loop body or inside reset
Inside(t) ==
    \E u \in Threads \ {t} : th.t[u].at \notin {"next", "reset_seen", "done"}

\* thread t moves to where, with the fields of its record set as in new
Moves(t, new) ==
    [th EXCEPT !.t[t] = new, !.overlap = th.overlap \/ Inside(t)]

ThreadFrame ==
    UNCHANGED <<_size, pc, gen, call, ret, supplied, minSize, maxSize, trace>>

\* for item in gen: the next item, or the end of the stream
t_next(t) ==
    /\ th.t[t].at = "next"
    /\ IF th.t[t].left = 0
       THEN th' = Moves(t, [th.t[t] EXCEPT !.at = "done"])
       ELSE th' = [Moves(t, [th.t[t] EXCEPT !.at = "load",
                                            !.left = th.t[t].left - 1])
                     EXCEPT !.drawn = th.drawn + 1]
    /\ UNCHANGED <<_samples, _seen, rng>>
    /\ ThreadFrame

\* self._seen += 1, the load
t_load(t) ==
    /\ th.t[t].at = "load"
    /\ th' = Moves(t, [th.t[t] EXCEPT !.at = "store", !.tmp = _seen])
    /\ UNCHANGED <<_samples, _seen, rng>>
    /\ ThreadFrame

\* self._seen += 1, the store
t_store(t) ==
    /\ th.t[t].at = "store"
    /\ _seen' = th.t[t].tmp + 1
    /\ th' = Moves(t, [th.t[t] EXCEPT !.at = "test"])
    /\ UNCHANGED <<_samples, rng>>
    /\ ThreadFrame

\* if self._seen <= self.size
t_test(t) ==
    /\ th.t[t].at = "test"
    /\ th' = Moves(t, [th.t[t] EXCEPT
                         !.at = IF Filling(_seen, _size) THEN "append"
                                ELSE "p"])
    /\ UNCHANGED <<_samples, _seen, rng>>
    /\ ThreadFrame

\* self.samples.append(item)
t_append(t) ==
    /\ th.t[t].at = "append"
    /\ _samples' = Append(_samples, "a")
    /\ th' = Moves(t, [th.t[t] EXCEPT !.at = "next"])
    /\ UNCHANGED <<_seen, rng>>
    /\ ThreadFrame

\* p = float(self.size / self._seen)
t_p(t) ==
    /\ th.t[t].at = "p"
    /\ IF _seen = 0
       THEN th' = Moves(t, [th.t[t] EXCEPT !.at = "done",
                                           !.err = "ZeroDivisionError"])
       ELSE th' = Moves(t, [th.t[t] EXCEPT !.at = "uniform",
                                           !.p = <<_size, _seen>>])
    /\ UNCHANGED <<_samples, _seen, rng>>
    /\ ThreadFrame

\* keep = np.random.uniform(size=1) <= p
t_uniform(t) ==
    /\ th.t[t].at = "uniform"
    /\ \E u \in Uniform(rng, th.t[t].p[1], th.t[t].p[2]) :
         /\ rng' = u.rng
         /\ th' = Moves(t, [th.t[t] EXCEPT
                              !.at = IF u.keep THEN "choice" ELSE "next"])
    /\ UNCHANGED <<_samples, _seen>>
    /\ ThreadFrame

\* swap_index = int(np.random.choice(self.size))
t_choice(t) ==
    /\ th.t[t].at = "choice"
    /\ \E c \in Choice(rng, _size) :
         /\ rng' = c.rng
         /\ th' = Moves(t, [th.t[t] EXCEPT !.at = "swap", !.idx = c.idx])
    /\ UNCHANGED <<_samples, _seen>>
    /\ ThreadFrame

\* self._samples[swap_index] = item
t_swap(t) ==
    /\ th.t[t].at = "swap"
    /\ IF th.t[t].idx < Len(_samples)
       THEN /\ _samples' = [_samples EXCEPT ![th.t[t].idx + 1] = "a"]
            /\ th' = Moves(t, [th.t[t] EXCEPT !.at = "next"])
       ELSE /\ _samples' = _samples
            /\ th' = Moves(t, [th.t[t] EXCEPT !.at = "done",
                                               !.err = "IndexError"])
    /\ UNCHANGED <<_seen, rng>>
    /\ ThreadFrame

\* reset: self._seen = 0
t_reset_seen(t) ==
    /\ th.t[t].at = "reset_seen"
    /\ _seen' = 0
    /\ th' = [Moves(t, [th.t[t] EXCEPT !.at = "reset_samples"])
                EXCEPT !.drawn = 0]
    /\ UNCHANGED <<_samples, rng>>
    /\ ThreadFrame

\* reset: self._samples = []
t_reset_samples(t) ==
    /\ th.t[t].at = "reset_samples"
    /\ _samples' = <<>>
    /\ th' = Moves(t, [th.t[t] EXCEPT !.at = "done"])
    /\ UNCHANGED <<_seen, rng>>
    /\ ThreadFrame

NextThreads ==
    \/ \E t \in Threads : t_next(t)
    \/ \E t \in Threads : t_load(t)
    \/ \E t \in Threads : t_store(t)
    \/ \E t \in Threads : t_test(t)
    \/ \E t \in Threads : t_append(t)
    \/ \E t \in Threads : t_p(t)
    \/ \E t \in Threads : t_uniform(t)
    \/ \E t \in Threads : t_choice(t)
    \/ \E t \in Threads : t_swap(t)
    \/ \E t \in Threads : t_reset_seen(t)
    \/ \E t \in Threads : t_reset_samples(t)

SpecThreads == InitThreads /\ [][NextThreads]_vars

\* both threads have returned
AllDone == \A t \in Threads : th.t[t].at = "done"

(***************************************************************************)
(* Properties                                                              *)
(***************************************************************************)

\* C1: capacity bound.  With the capacity as given at construction (or as it
\* stood at the last reset), after every call of sample the sample holds
\* min(seen, size) items.
CapacityBound ==
    (pc = "idle" /\ ~Resized) => Len(_samples) = Min(_seen, _size)

\* a call of sample has returned in the replacement phase
CapacityBoundWitness ==
    /\ pc = "idle" /\ ~Resized
    /\ call.name = "sample" /\ ret = "ok"
    /\ _seen > _size /\ Len(_samples) = _size

\* C2 as stated: in every reachable state the sample is no longer than the
\* stored capacity.
LenWithinCapacity == 0 <= Len(_samples) /\ Len(_samples) <= _size

\* C2 amended: in every reachable state the sample is no longer than the
\* largest capacity stored since construction or the last reset.
LenWithinLargestCapacity == 0 <= Len(_samples) /\ Len(_samples) <= maxSize

\* the setter lowered the capacity under the length of a full sample
LenWithinLargestCapacityWitness ==
    /\ call.name = "size" /\ ret = "ok"
    /\ Len(_samples) > _size /\ Len(_samples) = maxSize

\* C3 as stated: between operations, seen <= size implies that the sample
\* holds every item seen.
FillingLength ==
    (pc = "idle" /\ _seen <= _size) => Len(_samples) = _seen

\* C3 amended: between operations, when seen is at most the smallest capacity
\* stored since construction or the last reset, the sample holds every item
\* seen.
FillingLengthSmallestCapacity ==
    (pc = "idle" /\ _seen <= minSize) => Len(_samples) = _seen

\* the capacity was changed and the reservoir is still filling
FillingLengthWitness ==
    /\ pc = "idle" /\ Resized
    /\ call.name = "sample" /\ ret = "ok"
    /\ _seen = minSize /\ Len(_samples) = _seen

\* C4 as stated: once seen > size the sample holds size items, and no later
\* step other than a reset changes its length.
LengthFrozen ==
    [][_seen > _size =>
          /\ Len(_samples) = _size
          /\ (_seen' # 0 => Len(_samples') = Len(_samples))]_vars

\* C4 amended: while the capacity is the one given at construction or
\* standing at the last reset, once seen > size the sample holds size items,
\* and no later step other than a reset or a change of capacity changes its
\* length.
LengthFrozenFixedCapacity ==
    [][(~Resized /\ _seen > _size) =>
          /\ Len(_samples) = _size
          /\ ((~Resized' /\ _seen' # 0) => Len(_samples') = Len(_samples))]_vars

\* two items at least were ingested in the replacement phase, mid-stream
LengthFrozenWitness ==
    /\ ~Resized /\ pc = "loop" /\ gen # <<>>
    /\ _seen >= _size + 2 /\ Len(_samples) = _size

\* C5: count accumulation.  Between calls, seen is the number of items of
\* all the streams handed to sample since construction or the last reset,
\* calls of the size setter in between included.
CountAccumulation == pc = "idle" => _seen = supplied

\* C6: reset.  A reset never fails, leaves seen = 0 and an empty sample and
\* keeps size; and an item drawn while seen < size, as are the first size
\* items after a reset, is appended with no random draw.
ResetRestartsFilling ==
    [][/\ call'.name = "reset" =>
             /\ ret' = "ok" /\ pc' = "idle"
             /\ _seen' = 0 /\ _samples' = <<>>
             /\ _size' = _size /\ _seen' < _size'
       /\ (pc = "loop" /\ gen # <<>> /\ _seen < _size) =>
             /\ _samples' = Append(_samples, Head(gen))
             /\ _seen' = _seen + 1
             /\ rng' = rng
             /\ trace'.draws = trace.draws]_vars

\* a reset has just run on a reservoir of size 2 or more
ResetWitness ==
    /\ call.name = "reset" /\ ret = "ok" /\ pc = "idle"
    /\ _seen = 0 /\ _samples = <<>> /\ _size > 1

\* C7: capacity validation.  Construction and the size setter given a non
\* integer or a value < 1 raise and leave size, samples and seen as they
\* were; size >= 1 before and after every step.
SizeValidation ==
    [][/\ _size >= 1 /\ _size' >= 1
       /\ (/\ call'.name \in {"__init__", "size"}
           /\ (call'.arg.kind # "int" \/ call'.arg.val < 1)) =>
             /\ ret' \in {"TypeError", "ValueError"}
             /\ UNCHANGED <<_size, _samples, _seen>>]_vars

\* the setter has refused a value < 1 on a reservoir holding items
SizeValidationWitness ==
    /\ call.name = "size" /\ call.arg.kind = "int" /\ call.arg.val < 1
    /\ ret = "ValueError" /\ _samples # <<>> /\ _seen > 0

\* C8: validation of sample.  A call whose gen is not iterable, or whose
\* seed is given and is not an integer, raises TypeError with samples, seen
\* and size unchanged, no item drawn and the generator not reseeded.
SampleValidation ==
    [][(/\ call'.name = "sample"
        /\ (call'.gen = "other" \/ call'.arg.kind \notin {"none", "int"})) =>
          /\ ret' = "TypeError" /\ pc' = "idle"
          /\ UNCHANGED <<_size, _samples, _seen, rng, gen, supplied>>]_vars

\* sample has refused a float seed on a reservoir holding items, with the
\* generator seeded by an earlier call
SampleValidationWitness ==
    /\ call.name = "sample" /\ call.gen = "iterable"
    /\ call.arg.kind = "float" /\ ret = "TypeError"
    /\ pc = "idle" /\ _seen > 0 /\ rng.mode = "seeded"

\* C9: samples and seen are read-only.  Assigning to either raises and
\* changes nothing, and samples and seen change only in steps of sample, of
\* reset or of the construction of a new object, whatever the caller does
\* with the value of the samples property.
ReadOnly ==
    [][/\ call'.name \in {"samples=", "seen="} =>
             /\ ret' = "AttributeError"
             /\ UNCHANGED <<_size, _samples, _seen>>
       /\ (_samples' # _samples \/ _seen' # _seen) =>
             call'.name \in {"sample", "reset", "__init__"}]_vars

\* C10: frame of the size setter.  A successful size = value stores value
\* and leaves samples and seen as they were, whether value is larger or
\* smaller than the length of the sample.
SizeSetterFrame ==
    [][(call'.name = "size" /\ ret' = "ok") =>
          /\ _size' = call'.arg.val
          /\ UNCHANGED <<_samples, _seen, rng, pc, gen>>]_vars

\* the setter has stored a size smaller than the length of the sample
SizeSetterFrameWitness ==
    /\ call.name = "size" /\ ret = "ok" /\ pc = "idle"
    /\ _size = call.arg.val /\ _size < Len(_samples)

\* C11: streams compose.  With the capacity unchanged and no seed given
\* after the first call, two or more calls of sample leave the samples and
\* the count that one call on the concatenation of their streams leaves
\* when the generator draws for it what it drew for them: that call has
\* one outcome, uses every draw and makes the same acceptance tests.
StreamsCompose ==
    (/\ trace.on /\ pc = "idle" /\ trace.calls = 2
     /\ ~trace.reseeded /\ ~Resized) =>
        LET ones == RunLoop(_size, <<>>, 0, Tape(trace.draws),
                            Numbered(1, supplied))
        IN  /\ ones # {}
            /\ \A one \in ones :
                  /\ one.err = "ok"
                  /\ one.samples = _samples
                  /\ one.seen = _seen
                  /\ one.rng.tape = <<>>

\* two calls have gone into the replacement phase and an item was replaced
StreamsComposeWitness ==
    /\ trace.on /\ pc = "idle" /\ trace.calls = 2
    /\ ~trace.reseeded /\ ~Resized
    /\ call.name = "sample" /\ ret = "ok"
    /\ _seen > _size + 1 /\ _samples # Numbered(1, _size)

\* a run of one call of sample with an integer seed on a fresh reservoir,
\* of the capacity, seed and stream of the first seeded run, later than it
Replayed ==
    /\ trace.on /\ pc = "idle" /\ trace.calls = 1 /\ ~Resized
    /\ call.name = "sample" /\ call.arg.kind = "int" /\ ret = "ok"
    /\ trace.first.set /\ trace.seeded > 1
    /\ trace.first.size = _size
    /\ trace.first.seed = call.arg.val
    /\ trace.first.n = supplied

\* C12: deterministic replay.  Two fresh reservoirs of the same capacity,
\* each given one call of sample with the same integer seed and the same
\* stream, end with the same samples and the same seen.
DeterministicReplay ==
    Replayed => (_samples = trace.first.samples /\ _seen = trace.first.seen)

\* a run was replayed that went into the replacement phase and replaced an
\* item
DeterministicReplayWitness ==
    /\ Replayed
    /\ _seen > _size /\ _samples # Numbered(1, _size)

\* C13 as stated: between construction or a reset and the next reset, over
\* any operations, the reservoir leaves the filling phase (seen <= size)
\* only at the item that takes seen over size, and once in the replacing
\* phase (seen > size) it stays there.
PhaseOnce ==
    [][/\ (_seen > _size /\ call'.name \notin {"reset", "__init__"}) =>
             _seen' > _size'
       /\ (_seen <= _size /\ _seen' > _size') =>
             (pc = "loop" /\ _seen = _size /\ _seen' = _size + 1)]_vars

\* C13 amended: the same, over the steps before and after which the
\* capacity is the one given at construction or standing at the last reset.
PhaseOnceFixedCapacity ==
    [][/\ (/\ ~Resized /\ ~Resized'
           /\ _seen > _size /\ call'.name \notin {"reset", "__init__"}) =>
             _seen' > _size'
       /\ (~Resized /\ ~Resized' /\ _seen <= _size /\ _seen' > _size') =>
             (pc = "loop" /\ _seen = _size /\ _seen' = _size + 1)]_vars

\* the item that took seen over size was the last of its stream
PhaseOnceWitness ==
    /\ ~Resized /\ pc = "loop" /\ gen = <<>>
    /\ _seen = _size + 1 /\ Len(_samples) = _size

\* C15: replacement step.  An item drawn when seen + 1 > size is either
\* rejected, with samples unchanged, or accepted, with one slot of index in
\* 0..size-1 overwritten by it and the other slots unchanged; either way the
\* call goes on, seen grows by 1 and size is unchanged.
ReplacementStep ==
    [][(pc = "loop" /\ gen # <<>> /\ _seen + 1 > _size) =>
          /\ _seen' = _seen + 1
          /\ _size' = _size
          /\ ret' = ret
          /\ \/ _samples' = _samples
             \/ \E i \in 0..(_size - 1) :
                   /\ i < Len(_samples)
                   /\ _samples' = [_samples EXCEPT ![i + 1] = Head(gen)]]_vars

\* C16: filling phase order.  With the capacity unchanged since construction
\* or the last reset, while seen <= size the sample is the sequence of the
\* items ingested since then, in stream order, however they were split over
\* calls and whatever the generator drew.
FillingOrder ==
    (trace.on /\ ~Resized /\ _seen <= _size) =>
        _samples = Numbered(1, _seen)

\* two calls or more have filled a reservoir of size 2 or more to the brim
FillingOrderWitness ==
    /\ trace.on /\ ~Resized /\ pc = "idle" /\ trace.calls = 2
    /\ _size >= 2 /\ _seen = _size /\ _samples = Numbered(1, _size)

\* C18: no call of sample given an iterable fails on the slot write.
NoSlotWriteFailure == ret # "IndexError"

\* C19: the sample holds ingested items only, each at most once.  With the
\* items numbered in stream order, every element of samples is an item that
\* was handed to sample since construction or the last reset and has been
\* drawn, and no two slots hold the same item.
OnlyIngestedOnce ==
    trace.on =>
        /\ \A i \in 1..Len(_samples) :
              _samples[i] \in 1..(supplied - Len(gen))
        /\ \A i, j \in 1..Len(_samples) :
              i # j => _samples[i] # _samples[j]

\* a slot was overwritten, after a change of capacity, in a sample shorter
\* than the capacity
OnlyIngestedOnceWitness ==
    /\ trace.on /\ Resized /\ pc = "idle" /\ ret = "ok"
    /\ call.name = "sample"
    /\ Len(_samples) >= 2 /\ Len(_samples) < _size
    /\ _seen > _size
    /\ \E i \in 1..Len(_samples) : _samples[i] > _size

\* C20: between operations the sample is no longer than seen, and seen
\* never decreases but to 0, by reset (or by the construction of a new
\* reservoir).
LenAtMostSeen ==
    [][/\ pc = "idle" => Len(_samples) <= _seen
       /\ pc' = "idle" => Len(_samples') <= _seen'
       /\ _seen' < _seen =>
             (call'.name \in {"reset", "__init__"} /\ _seen' = 0)]_vars

\* the capacity was raised over seen after items were rejected or replaced
LenAtMostSeenWitness ==
    /\ pc = "idle" /\ call.name = "size" /\ ret = "ok" /\ Resized
    /\ 0 < Len(_samples) /\ Len(_samples) < _seen /\ _seen <= _size

\* C17: unserialized concurrent access corrupts the reservoir.  When the
\* two threads have returned and their loop bodies (or reset) did not
\* interleave, seen is the number of items drawn since the reset and the
\* sample holds min(seen, size) items; the witness is a run where they did
\* interleave and an update was lost or the length is wrong.
SerialThreadsAreSound ==
    (AllDone /\ ~th.overlap) =>
        /\ _seen = th.drawn
        /\ Len(_samples) = Min(_seen, _size)
        /\ \A t \in Threads : th.t[t].err = "ok"

\* both threads ran sample to the end and an increment of seen was lost
ThreadsCorruptWitness ==
    /\ AllDone /\ th.overlap
    /\ \A t \in Threads : th.t[t].err = "ok"
    /\ supplied = th.drawn
    /\ (_seen < th.drawn \/ Len(_samples) # Min(_seen, _size))

====
